---------------------------- MODULE Spec2Model ----------------------------
(***************************************************************************)
(* goelf (src/main.go): a Go service that mirrors the remote schedule feed *)
(* into the SQLite table `schedule` and serves it back.                    *)
(*                                                                         *)
(* State: the rows of table `schedule` (the snapshot store), the position  *)
(* of every goroutine that runs fetchSchedule (the startup task, the cron  *)
(* ticks, the goroutines spawned by refreshData), and the response of the  *)
(* HTTP handler that has just answered.                                    *)
(*                                                                         *)
(* Every db.Exec / stmt.Exec / db.Query is one autocommitted SQLite        *)
(* statement: it is atomic and isolated, and it either takes effect or     *)
(* fails without effect.  The code opens no transaction, so the steps of   *)
(* one fetchSchedule interleave with the statements of every other         *)
(* goroutine.  A query that db.Query accepts delivers all its rows: the    *)
(* code never looks at rows.Err, and no failure of rows.Next or rows.Scan  *)
(* is modelled.  The run starts on a fresh database file.                  *)
(*                                                                         *)
(* getScoreboard's answer carries the standings computed from the rows it  *)
(* read.  The order in which Go ranges over a map is unspecified and       *)
(* sort.Slice is not stable, so `Standings` is the set of the answers the  *)
(* handler can give.  A float64 ratio is kept as a fraction in lowest      *)
(* terms.  One client.Do call is one request to the feed.                  *)
(***************************************************************************)
EXTENDS Naturals, Sequences, FiniteSets

VARIABLES
    store,      \* rows of table schedule
    pc,         \* pc[p]: where goroutine p stands
    response,   \* response[p]: what fetchSchedule got from the feed (resp, body)
    schedules,  \* schedules[p]: the slice fetchSchedule decoded (main.go:203)
    idx,        \* idx[p]: 1-based position of the range loop over the rows
    result,     \* result[p]: what goroutine p logged about its fetchSchedule
    resp,       \* the response the handler that has just run has written
    faults,     \* failures (feed, store) that have happened so far
    serial,     \* TRUE in the runs whose triggers never overlap (SpecSerial)
    before,     \* serial runs: the store when the latest invocation began
    journal,    \* serial runs: one entry per invocation that has returned
    requests    \* requests[p]: the requests goroutine p has sent to the feed

vars == <<store, pc, response, schedules, idx, result, resp, faults, serial, before,
          journal, requests>>

-----------------------------------------------------------------------------
(* Bounds *)

\* cron ticks and GET /api/refresh calls during a run (each spawns a goroutine)
MaxTriggers == 1
\* failures (of the feed or of a store statement) during a run
MaxFaults == 1

-----------------------------------------------------------------------------
(* Rows.  date and time are TEXT columns compared by SQLite's binary       *)
(* collation; the model keeps, for each text, its rank in that order.      *)

Row(id, home, away, d, t, hs, as) ==
    [statcrew_id |-> id, home_team |-> home, away_team |-> away,
     date |-> d, time |-> t, home_score |-> hs, away_score |-> as]

\* Ranks of the time texts "19:30" < "20:00" < "20:45" < "21:00".
T1930 == 1
T2000 == 2
T2045 == 3
T2100 == 4

\* insertMockData's mockSchedules ("2024-01-15" .. "2024-01-18": ranks 1..4).
mockSchedulesPlayed ==
    << Row("mock1", "Vienna Vikings", "Prague Lions", 1, T2000, 2, 1),
       Row("mock2", "Barcelona", "Real Madrid", 2, T2100, 0, 0),
       Row("mock3", "Bayern Munich", "Borussia Dortmund", 3, T1930, 0, 0),
       Row("mock4", "PSG", "Marseille", 4, T2045, 0, 0) >>

mockSchedules ==
    << Row("mock1", "Manchester United", "Liverpool", 1, T2000, 0, 0),
       Row("mock2", "Barcelona", "Real Madrid", 2, T2100, 0, 0),
       Row("mock3", "Bayern Munich", "Borussia Dortmund", 3, T1930, 0, 0),
       Row("mock4", "PSG", "Marseille", 4, T2045, 0, 0) >>

\* Records the remote feed serves (dates of the running season: ranks 5, 6).
a1  == Row("g1", "Vienna Vikings", "Prague Lions", 6, T2000, 0, 0)
a2  == Row("g2", "Rhein Fire", "Berlin Thunder", 6, T1930, 21, 14)
b1x == Row("g1", "Vienna Vikings", "Prague Lions", 5, T2000, 7, 0)
b3  == Row("g3", "Munich Ravens", "Madrid Bravos", 6, T1930, 0, 0)
b1  == Row("g1", "Vienna Vikings", "Prague Lions", 6, T1930, 28, 10)

\* Payloads: feed A, and a later feed B that lacks g2, repeats identifier g1
\* and holds two games of equal date and time.
FeedA == <<a1, a2>>
FeedB == <<b1x, b3, b1>>

Range(s) == {s[i] : i \in 1..Len(s)}

MockIds == {mockSchedules[i].statcrew_id : i \in 1..Len(mockSchedules)}


-----------------------------------------------------------------------------
(* Goroutines *)

Startup == <<"startup", 1>>
\* The goroutines the triggers spawn, in the order they are spawned.
Spawned == {"go"} \X (1..MaxTriggers)
Procs == {Startup} \cup Spawned

-----------------------------------------------------------------------------
(* The remote feed: what client.Do and io.ReadAll hand to fetchSchedule.   *)

StatusOK == 200
StatusUnavailable == 503

Response(te, st, re, b) == [transportErr |-> te, status |-> st, readErr |-> re, body |-> b]

NoResponse == Response(FALSE, 0, FALSE, "none")

FeedResponses ==
    { Response(TRUE, 0, FALSE, ""),
      Response(FALSE, StatusUnavailable, FALSE, "<html>"),
      Response(FALSE, StatusOK, TRUE, ""),
      Response(FALSE, StatusOK, FALSE, ""),
      Response(FALSE, StatusOK, FALSE, "<html>"),
      Response(FALSE, StatusOK, FALSE, "[]"),
      Response(FALSE, StatusOK, FALSE, "null"),
      Response(FALSE, StatusOK, FALSE, "feedA"),
      Response(FALSE, StatusOK, FALSE, "feedB") }

\* json.Unmarshal(body, &schedules): null and [] both decode to no record.
Unmarshal(body) ==
    CASE body = "feedA" -> [err |-> FALSE, schedules |-> FeedA]
      [] body = "feedB" -> [err |-> FALSE, schedules |-> FeedB]
      [] body = "[]"    -> [err |-> FALSE, schedules |-> <<>>]
      [] body = "null"  -> [err |-> FALSE, schedules |-> <<>>]
      [] OTHER          -> [err |-> TRUE,  schedules |-> <<>>]

\* The checks of fetchSchedule between the request and the DELETE, in the
\* order of the code; "ok" when the payload reaches the store.
ValidateNoEmptyCheck(r) ==
    IF r.transportErr THEN "TransportError"
    ELSE IF r.status # StatusOK THEN "HTTPStatus"
    ELSE IF r.readErr THEN "ReadError"
    ELSE IF r.body # "" /\ Unmarshal(r.body).err THEN "DecodeError"
    ELSE "ok"

ValidateNoEmptyFeed(r) ==
    IF r.transportErr THEN "TransportError"
    ELSE IF r.status # StatusOK THEN "HTTPStatus"
    ELSE IF r.readErr THEN "ReadError"
    ELSE IF r.body = "" THEN "EmptyResponse"
    ELSE IF Unmarshal(r.body).err THEN "DecodeError"
    ELSE IF Unmarshal(r.body).schedules = <<>> THEN "EmptyResponse"
    ELSE "ok"

Validate(r) ==
    IF r.transportErr THEN "TransportError"
    ELSE IF r.status # StatusOK THEN "HTTPStatus"
    ELSE IF r.readErr THEN "ReadError"
    ELSE IF r.body = "" THEN "EmptyResponse"
    ELSE IF Unmarshal(r.body).err THEN "DecodeError"
    ELSE "ok"

FeedFailures == {"TransportError", "HTTPStatus", "ReadError", "EmptyResponse", "DecodeError"}
StoreFailures == {"DeleteError", "PrepareError", "InsertError"}

-----------------------------------------------------------------------------
(* The statements run against table schedule *)

\* DELETE FROM schedule
DeleteNothing(S) == S

DeleteAll(S) == {}

\* REPLACE INTO schedule ... : statcrew_id is the PRIMARY KEY, so the row that
\* holds the same statcrew_id is deleted before the new row is inserted.
ReplaceIntoNoKey(S, row) == S \cup {row}

ReplaceIntoIgnore(S, row) ==
    IF \E r \in S : r.statcrew_id = row.statcrew_id THEN S ELSE S \cup {row}

ReplaceInto(S, row) == {r \in S : r.statcrew_id # row.statcrew_id} \cup {row}

\* ORDER BY date, time
KeyLEDateOnly(x, y) == x.date <= y.date

KeyLE(x, y) == x.date < y.date \/ (x.date = y.date /\ x.time <= y.time)

\* The sequences a SELECT ... ORDER BY date, time can return for the rows S:
\* every row once, smallest key first; rows of equal key come in any order.
RECURSIVE Ordered(_)
Ordered(S) ==
    IF S = {} THEN {<<>>}
    ELSE UNION { { <<m>> \o t : t \in Ordered(S \ {m}) } :
                 m \in {x \in S : \A y \in S : KeyLE(x, y)} }

\* WHERE home_score > 0 OR away_score > 0
PlayedBothScores(S) == {r \in S : r.home_score > 0 /\ r.away_score > 0}

Played(S) == {r \in S : r.home_score > 0 \/ r.away_score > 0}

\* SELECT COUNT(*) FROM schedule
Count(S) == Cardinality(S)

-----------------------------------------------------------------------------
(* getScoreboard's standings (main.go:372-537).  A Go map is a function    *)
(* on the set of its keys; reading a missing key gives the zero value.     *)

\* var teamDivisions
teamDivisions ==
    [t \in {"Vienna Vikings", "Prague Lions", "Wroclaw Panthers",
            "Fehérvár Enthroners", "Fehervar Enthroners",
            "Stuttgart Surge", "Paris Musketeers", "Frankfurt Galaxy",
            "Cologne Centurions",
            "Nordic Storm", "Rhein Fire", "Berlin Thunder", "Hamburg Sea Devils",
            "Munich Ravens", "Madrid Bravos", "Raiders Tirol",
            "Helvetic Mercenaries"} |->
        IF t \in {"Vienna Vikings", "Prague Lions", "Wroclaw Panthers",
                  "Fehérvár Enthroners", "Fehervar Enthroners"} THEN "EAST"
        ELSE IF t \in {"Stuttgart Surge", "Paris Musketeers", "Frankfurt Galaxy",
                       "Cologne Centurions"} THEN "WEST"
        ELSE IF t \in {"Nordic Storm", "Rhein Fire", "Berlin Thunder",
                       "Hamburg Sea Devils"} THEN "NORTH"
        ELSE "SOUTH"]

\* The rows the loop over rows.Next keeps in `games`.
Games(rows) == SelectSeq(rows, LAMBDA r : r.home_score > 0 \/ r.away_score > 0)

\* teamStats[team]
Stat(teamStats, team) ==
    IF team \in DOMAIN teamStats THEN teamStats[team] ELSE [wins |-> 0, losses |-> 0]

\* teamStats[team] = v
Put(teamStats, team, v) ==
    [x \in DOMAIN teamStats \cup {team} |-> IF x = team THEN v ELSE teamStats[x]]

Won(teamStats, team) ==
    Put(teamStats, team, [wins |-> Stat(teamStats, team).wins + 1,
                          losses |-> Stat(teamStats, team).losses])

NotLost(teamStats, team) == teamStats

Lost(teamStats, team) ==
    Put(teamStats, team, [wins |-> Stat(teamStats, team).wins,
                          losses |-> Stat(teamStats, team).losses + 1])

\* What one game does to teamStats.
TallyGameTieToHome(teamStats, game) ==
    IF game.home_score >= game.away_score
    THEN Lost(Won(teamStats, game.home_team), game.away_team)
    ELSE Lost(Won(teamStats, game.away_team), game.home_team)

TallyGame(teamStats, game) ==
    IF game.home_score > game.away_score
    THEN Lost(Won(teamStats, game.home_team), game.away_team)
    ELSE IF game.away_score > game.home_score
    THEN Lost(Won(teamStats, game.away_team), game.home_team)
    ELSE teamStats

\* teamStats once the first n games are tallied.
RECURSIVE TeamStats(_, _)
TeamStats(games, n) ==
    IF n = 0 THEN <<>> ELSE TallyGame(TeamStats(games, n - 1), games[n])

\* The loop over games for teamName: which games count, against whom, and
\* whether teamName won.
InvolvesAtHome(game, teamName) == game.home_team = teamName

Involves(game, teamName) == game.home_team = teamName \/ game.away_team = teamName

Opponent(game, teamName) ==
    IF game.home_team = teamName THEN game.away_team ELSE game.home_team

DefeatedOrTied(game, teamName) ==
    IF game.home_team = teamName THEN game.home_score >= game.away_score
    ELSE game.away_team = teamName /\ game.away_score >= game.home_score

Defeated(game, teamName) ==
    IF game.home_team = teamName THEN game.home_score > game.away_score
    ELSE game.away_team = teamName /\ game.away_score > game.home_score

RECURSIVE SumTo(_, _)
SumTo(f, n) == IF n = 0 THEN 0 ELSE SumTo(f, n - 1) + f[n]

\* opponentWins, opponentLosses, defeatedOpponentWins, defeatedOpponentLosses
OpponentTotals(games, teamStats, teamName) ==
    LET opp(i) == Stat(teamStats, Opponent(games[i], teamName))
        met(i) == Involves(games[i], teamName)
        won(i) == met(i) /\ Defeated(games[i], teamName)
        n == Len(games)
    IN  [opponentWins |-> SumTo([i \in 1..n |-> IF met(i) THEN opp(i).wins ELSE 0], n),
         opponentLosses |-> SumTo([i \in 1..n |-> IF met(i) THEN opp(i).losses ELSE 0], n),
         defeatedOpponentWins |->
             SumTo([i \in 1..n |-> IF won(i) THEN opp(i).wins ELSE 0], n),
         defeatedOpponentLosses |->
             SumTo([i \in 1..n |-> IF won(i) THEN opp(i).losses ELSE 0], n)]

\* float64(a) / float64(b) of small naturals: the float64 quotients of two
\* pairs are equal exactly when the fractions are, so the model keeps the
\* fraction in lowest terms; 0.0 is <<0, 1>>.
RECURSIVE GCD(_, _)
GCD(a, b) == IF b = 0 THEN a ELSE GCD(b, a % b)

Quotient(a, b) ==
    IF a = 0 THEN <<0, 1>> ELSE <<a \div GCD(a, b), b \div GCD(a, b)>>

\* if total > 0 { x = float64(part) / float64(total) } else { x = 0.0 }
Ratio(part, total) == IF total > 0 THEN Quotient(part, total) ELSE <<0, 1>>

\* fmt.Sprintf("%d", n)
Digit(n) ==
    CASE n = 0 -> "0" [] n = 1 -> "1" [] n = 2 -> "2" [] n = 3 -> "3" [] n = 4 -> "4"
      [] n = 5 -> "5" [] n = 6 -> "6" [] n = 7 -> "7" [] n = 8 -> "8" [] n = 9 -> "9"

RECURSIVE Itoa(_)
Itoa(n) == IF n < 10 THEN Digit(n) ELSE Itoa(n \div 10) \o Digit(n % 10)

\* fmt.Sprintf("%d-%d", wins, losses)
RecordString(wins, losses) == Itoa(wins) \o "-" \o Itoa(losses)

\* division := teamDivisions[teamName]; "" becomes "UNKNOWN"
Division(teamName) ==
    IF teamName \in DOMAIN teamDivisions THEN teamDivisions[teamName] ELSE "UNKNOWN"

\* The TeamStanding built for teamName; Position is set after the sort.
Standing(games, teamStats, teamName) ==
    LET o == OpponentTotals(games, teamStats, teamName)
    IN  [TeamName |-> teamName,
         Division |-> Division(teamName),
         Wins |-> teamStats[teamName].wins,
         Losses |-> teamStats[teamName].losses,
         Record |-> RecordString(teamStats[teamName].wins, teamStats[teamName].losses),
         Position |-> 0,
         SoS |-> Ratio(o.opponentWins, o.opponentWins + o.opponentLosses),
         SoV |-> Ratio(o.defeatedOpponentWins,
                       o.defeatedOpponentWins + o.defeatedOpponentLosses)]

\* The less function handed to sort.Slice.
LessByWins(x, y) == x.Wins > y.Wins

Less(x, y) == IF x.Wins # y.Wins THEN x.Wins > y.Wins ELSE x.Losses < y.Losses

\* The slices sort.Slice can leave for the standings T of one division.  The
\* slice was appended to in the iteration order of the map teamStats, which
\* Go leaves unspecified, and sort.Slice is not stable: elements neither of
\* which is less than the other come in any order.
RECURSIVE Sorted(_)
Sorted(T) ==
    IF T = {} THEN {<<>>}
    ELSE UNION { { <<m>> \o t : t \in Sorted(T \ {m}) } :
                 m \in {x \in T : \A y \in T : ~Less(y, x)} }

\* divisionStandings[division][i].Position = i + 1, i counted from 0
Positions(teams) == [i \in 1..Len(teams) |-> [teams[i] EXCEPT !.Position = i]]

\* divisions := []string{"EAST", "WEST", "NORTH", "SOUTH"}
divisionsSorted == <<"EAST", "NORTH", "SOUTH", "WEST">>

divisions == <<"EAST", "WEST", "NORTH", "SOUTH">>

\* The final loop over the first k names of divisions: a DivisionData for
\* each name that is a key of divisionStandings.
RECURSIVE Emit(_, _)
Emit(T, k) ==
    IF k = 0 THEN {<<>>}
    ELSE LET members == {x \in T : x.Division = divisions[k]}
         IN  IF members = {} THEN Emit(T, k - 1)
             ELSE { Append(s, [Division |-> divisions[k], Teams |-> Positions(l)]) :
                    s \in Emit(T, k - 1), l \in Sorted(members) }

\* Every value of `standings` the handler can compute from the rows it read.
Standings(rows) ==
    LET games == Games(rows)
        teamStats == TeamStats(games, Len(games))
    IN  Emit({Standing(games, teamStats, t) : t \in DOMAIN teamStats}, Len(divisions))

-----------------------------------------------------------------------------
(* HTTP handlers' responses *)

StatusInternalServerError == 500

NoResp == [op |-> "none", status |-> 0, error |-> FALSE, rows |-> <<>>, standings |-> <<>>]

\* refreshData: c.JSON(http.StatusOK, "Data refresh initiated")
Ack == [op |-> "refreshData", status |-> StatusOK, error |-> FALSE, rows |-> <<>>, standings |-> <<>>]

\* getSchedule / getScoreboard: 500 carrying err.Error() when db.Query fails,
\* else 200 with what the query returned.
ReadResponseNoData(op, queryErr, rows) ==
    IF queryErr
    THEN [op |-> op, status |-> StatusInternalServerError, error |-> TRUE, rows |-> <<>>, standings |-> <<>>]
    ELSE IF rows = <<>>
    THEN [op |-> op, status |-> 404, error |-> TRUE, rows |-> <<>>, standings |-> <<>>]
    ELSE [op |-> op, status |-> StatusOK, error |-> FALSE, rows |-> rows, standings |-> <<>>]

ReadResponse(op, queryErr, rows) ==
    IF queryErr
    THEN [op |-> op, status |-> StatusInternalServerError, error |-> TRUE, rows |-> <<>>, standings |-> <<>>]
    ELSE [op |-> op, status |-> StatusOK, error |-> FALSE, rows |-> rows, standings |-> <<>>]

-----------------------------------------------------------------------------
(* Initial state: a fresh database, no goroutine spawned yet *)

InitProgram ==
    /\ store = {}
    /\ pc = [p \in Procs |-> "idle"]
    /\ response = [p \in Procs |-> NoResponse]
    /\ schedules = [p \in Procs |-> <<>>]
    /\ idx = [p \in Procs |-> 0]
    /\ result = [p \in Procs |-> "none"]
    /\ resp = NoResp
    /\ faults = 0
    /\ before = {}
    /\ journal = <<>>
    /\ requests = [p \in Procs |-> 0]

Init == InitProgram /\ serial = FALSE

InitSerial == InitProgram /\ serial = TRUE

-----------------------------------------------------------------------------
(* Helpers of the actions *)

\* Where a goroutine stands once its fetchSchedule has returned: the startup
\* task goes on to count the rows (main.go:146), the others end.
ExitPcRetry(p) == "fetch"

ExitPc(p) == IF p = Startup THEN "count" ELSE "done"

Entry(p, r, R, res, S0, S1) ==
    [proc |-> p, response |-> r, R |-> R, result |-> res, before |-> S0, after |-> S1]

\* A goroutine enters fetchSchedule.
BeginExclusive(p) ==
    /\ pc[p] = "idle"
    /\ \A q \in Procs : pc[q] \in {"idle", "done"}
    /\ pc' = [pc EXCEPT ![p] = "fetch"]
    /\ before' = IF serial THEN store ELSE before
    /\ UNCHANGED <<store, response, schedules, idx, result, faults, serial,
                   journal, requests>>

BeginNoSpawn(p) ==
    /\ pc[p] = "idle"
    /\ UNCHANGED <<store, pc, response, schedules, idx, result, faults, serial,
                   before, journal, requests>>

Begin(p) ==
    /\ pc[p] = "idle"
    /\ serial => \A q \in Procs : pc[q] \in {"idle", "done"}
    /\ pc' = [pc EXCEPT ![p] = "fetch"]
    /\ before' = IF serial THEN store ELSE before
    /\ UNCHANGED <<store, response, schedules, idx, result, faults,
                   serial, journal, requests>>

\* fetchSchedule of goroutine p returns having logged res, the store being S.
Return(p, r, res, S, R) ==
    /\ pc' = [pc EXCEPT ![p] = ExitPc(p)]
    /\ response' = [response EXCEPT ![p] = NoResponse]
    /\ result' = [result EXCEPT ![p] = res]
    /\ journal' = IF serial THEN Append(journal, Entry(p, r, R, res, before, S))
                  ELSE journal

Fault(fails) ==
    /\ fails => faults < MaxFaults
    /\ faults' = IF fails THEN faults + 1 ELSE faults

-----------------------------------------------------------------------------
(* Triggers (startDataFetcher, refreshData) *)

\* The goroutine of startDataFetcher wakes from its sleep and calls fetchSchedule.
StartupTask ==
    /\ Begin(Startup)
    /\ resp' = NoResp

\* The cron job fires; robfig/cron runs every firing in a goroutine of its own.
CronTick(i) ==
    /\ i > 1 => pc[<<"go", i - 1>>] # "idle"
    /\ Begin(<<"go", i>>)
    /\ resp' = NoResp

\* GET /api/refresh: spawn the goroutine, answer at once.
RefreshData(i) ==
    /\ i > 1 => pc[<<"go", i - 1>>] # "idle"
    /\ Begin(<<"go", i>>)
    /\ resp' = Ack

-----------------------------------------------------------------------------
(* fetchSchedule *)

\* main.go:158-208: the request, and the checks of its response.
Request(p, r) ==
    /\ pc[p] = "fetch"
    /\ Fault(Validate(r) # "ok")
    /\ IF Validate(r) # "ok"
       THEN /\ Return(p, r, Validate(r), store, schedules[p])
            /\ UNCHANGED schedules
       ELSE /\ response' = [response EXCEPT ![p] = r]
            /\ schedules' = [schedules EXCEPT ![p] = Unmarshal(r.body).schedules]
            /\ pc' = [pc EXCEPT ![p] = "delete"]
            /\ UNCHANGED <<result, journal>>
    /\ resp' = NoResp
    /\ requests' = [requests EXCEPT ![p] = requests[p] + 1]
    /\ UNCHANGED <<store, idx, serial, before>>

\* main.go:211-217: DELETE FROM schedule, then the test len(schedules) > 0.
DeleteSchedule(p, fails) ==
    /\ pc[p] = "delete"
    /\ Fault(fails)
    /\ IF fails
       THEN /\ Return(p, response[p], "DeleteError", store, schedules[p])
            /\ UNCHANGED store
       ELSE /\ store' = DeleteAll(store)
            /\ IF Len(schedules[p]) > 0
               THEN /\ pc' = [pc EXCEPT ![p] = "prepare"]
                    /\ UNCHANGED <<response, result, journal>>
               ELSE Return(p, response[p], "Fetched", DeleteAll(store), schedules[p])
    /\ resp' = NoResp
    /\ UNCHANGED <<schedules, idx, serial, before, requests>>

\* main.go:218-223: db.Prepare of the REPLACE statement.
PrepareInsert(p, fails) ==
    /\ pc[p] = "prepare"
    /\ Fault(fails)
    /\ IF fails
       THEN /\ Return(p, response[p], "PrepareError", store, schedules[p])
            /\ UNCHANGED idx
       ELSE /\ pc' = [pc EXCEPT ![p] = "insert"]
            /\ idx' = [idx EXCEPT ![p] = 1]
            /\ UNCHANGED <<response, result, journal>>
    /\ resp' = NoResp
    /\ UNCHANGED <<store, schedules, serial, before, requests>>

InsertRowAbort(p, fails) ==
    /\ pc[p] = "insert"
    /\ Fault(fails)
    /\ LET row == schedules[p][idx[p]]
           S == IF fails THEN store ELSE ReplaceInto(store, row)
       IN  /\ store' = S
           /\ IF ~fails /\ idx[p] < Len(schedules[p])
              THEN /\ idx' = [idx EXCEPT ![p] = idx[p] + 1]
                   /\ UNCHANGED <<pc, response, result, journal>>
              ELSE /\ Return(p, response[p], IF fails THEN "InsertError" ELSE "Fetched",
                             S, schedules[p])
                   /\ UNCHANGED idx
    /\ resp' = NoResp
    /\ UNCHANGED <<schedules, serial, before, requests>>

\* main.go:225-233: one turn of the range loop; a failed stmt.Exec is logged
\* and the loop goes on.
InsertRow(p, fails) ==
    /\ pc[p] = "insert"
    /\ Fault(fails)
    /\ LET row == schedules[p][idx[p]]
           S == IF fails THEN store ELSE ReplaceInto(store, row)
           res == IF fails \/ result[p] = "InsertError" THEN "InsertError" ELSE "Fetched"
       IN  /\ store' = S
           /\ IF idx[p] < Len(schedules[p])
              THEN /\ idx' = [idx EXCEPT ![p] = idx[p] + 1]
                   /\ result' = [result EXCEPT ![p] = IF fails THEN "InsertError" ELSE result[p]]
                   /\ UNCHANGED <<pc, response, journal>>
              ELSE /\ Return(p, response[p], res, S, schedules[p])
                   /\ UNCHANGED idx
    /\ resp' = NoResp
    /\ UNCHANGED <<schedules, serial, before, requests>>

-----------------------------------------------------------------------------
(* The startup task after its fetchSchedule (main.go:145-152) and          *)
(* insertMockData (main.go:579-600; its writes to table scoreboard touch   *)
(* no state of this model)                                                 *)

CountSchedule(fails) ==
    /\ pc[Startup] = "count"
    /\ Fault(fails)
    /\ pc' = [pc EXCEPT ![Startup] =
                IF ~fails /\ Count(store) = 0 THEN "mockprepare" ELSE "done"]
    /\ journal' = IF serial /\ ~fails /\ Count(store) = 0
                  THEN Append(journal, Entry(Startup, NoResponse, <<>>, "Seeding", store, store))
                  ELSE journal
    /\ resp' = NoResp
    /\ UNCHANGED <<store, response, schedules, idx, result, serial,
                   before, requests>>

MockPrepare(fails) ==
    /\ pc[Startup] = "mockprepare"
    /\ Fault(fails)
    /\ pc' = [pc EXCEPT ![Startup] = IF fails THEN "done" ELSE "mock"]
    /\ idx' = [idx EXCEPT ![Startup] = IF fails THEN idx[Startup] ELSE 1]
    /\ resp' = NoResp
    /\ UNCHANGED <<store, response, schedules, result, serial,
                   before, journal, requests>>

MockInsert(fails) ==
    /\ pc[Startup] = "mock"
    /\ Fault(fails)
    /\ store' = IF fails THEN store ELSE ReplaceInto(store, mockSchedules[idx[Startup]])
    /\ IF idx[Startup] < Len(mockSchedules)
       THEN /\ idx' = [idx EXCEPT ![Startup] = idx[Startup] + 1]
            /\ UNCHANGED pc
       ELSE /\ pc' = [pc EXCEPT ![Startup] = "done"]
            /\ UNCHANGED idx
    /\ resp' = NoResp
    /\ UNCHANGED <<response, schedules, result, serial, before,
                   journal, requests>>

-----------------------------------------------------------------------------
(* Read handlers: one SELECT each, answered from the rows committed at the *)
(* moment the statement runs                                               *)

\* GET /api/schedule (main.go:304-329)
GetSchedule(fails) ==
    /\ Fault(fails)
    /\ \E rows \in Ordered(store) :
          resp' = ReadResponse("getSchedule", fails, rows)
    /\ UNCHANGED <<store, pc, response, schedules, idx, result,
                   serial, before, journal, requests>>

GetScoreboardCached(fails) ==
    /\ Fault(fails)
    /\ \E rows \in Ordered(Played(before)) :
          IF fails
          THEN resp' = ReadResponse("getScoreboard", fails, rows)
          ELSE \E standings \in Standings(rows) :
                  resp' = [ReadResponse("getScoreboard", fails, rows)
                              EXCEPT !.standings = standings]
    /\ UNCHANGED <<store, pc, response, schedules, idx, result, serial,
                   before, journal, requests>>

\* GET /api/scoreboard (main.go:363-545): the query of the played games, and
\* the standings computed from its rows.
GetScoreboard(fails) ==
    /\ Fault(fails)
    /\ \E rows \in Ordered(Played(store)) :
          IF fails
          THEN resp' = ReadResponse("getScoreboard", fails, rows)
          ELSE \E standings \in Standings(rows) :
                  resp' = [ReadResponse("getScoreboard", fails, rows)
                              EXCEPT !.standings = standings]
    /\ UNCHANGED <<store, pc, response, schedules, idx, result,
                   serial, before, journal, requests>>

-----------------------------------------------------------------------------

\* The steps of the triggers and of the goroutines they start.
Refresh ==
    \/ StartupTask
    \/ \E i \in 1..MaxTriggers : CronTick(i)
    \/ \E i \in 1..MaxTriggers : RefreshData(i)
    \/ \E p \in Procs, r \in FeedResponses : Request(p, r)
    \/ \E p \in Procs, fails \in BOOLEAN : DeleteSchedule(p, fails)
    \/ \E p \in Procs, fails \in BOOLEAN : PrepareInsert(p, fails)
    \/ \E p \in Procs, fails \in BOOLEAN : InsertRow(p, fails)
    \/ \E fails \in BOOLEAN : CountSchedule(fails)
    \/ \E fails \in BOOLEAN : MockPrepare(fails)
    \/ \E fails \in BOOLEAN : MockInsert(fails)

Next ==
    \/ Refresh
    \/ \E fails \in BOOLEAN : GetSchedule(fails)
    \/ \E fails \in BOOLEAN : GetScoreboard(fails)

\* The writers of the store, their triggers overlapping freely.  The read
\* handlers write nothing, so no store content is lost by leaving them out.
Spec == Init /\ [][Refresh]_vars

\* The whole program, read requests arriving at any moment, in the runs where
\* every invocation returns (and the startup task ends) before the next begins.
SpecSerial == InitSerial /\ [][Next]_vars

-----------------------------------------------------------------------------
(* The standings of a season in progress: every refresh has returned, the  *)
(* store holds whatever games the feed delivered, and only reads arrive.   *)

\* Games a feed can hold: a round robin in EAST (s1, s2, s3) with a second
\* meeting (s9), an unplayed game (s4), shutouts (s5, s8) of equal date and
\* time, a tie (s6), and a team that teamDivisions lacks (s6, s7).
s1 == Row("s1", "Vienna Vikings", "Prague Lions", 7, T2000, 10, 0)
s2 == Row("s2", "Prague Lions", "Wroclaw Panthers", 8, T2000, 7, 3)
s3 == Row("s3", "Wroclaw Panthers", "Vienna Vikings", 9, T2000, 14, 10)
s4 == Row("s4", "Stuttgart Surge", "Rhein Fire", 10, T1930, 0, 0)
s5 == Row("s5", "Rhein Fire", "Stuttgart Surge", 11, T2000, 0, 7)
s6 == Row("s6", "Munich Ravens", "London Warriors", 12, T2000, 14, 14)
s7 == Row("s7", "London Warriors", "Vienna Vikings", 13, T2000, 21, 20)
s8 == Row("s8", "Munich Ravens", "Stuttgart Surge", 11, T2000, 3, 0)
s9 == Row("s9", "Prague Lions", "Vienna Vikings", 14, T2000, 6, 3)

Season == {s1, s2, s3, s4, s5, s6, s7, s8, s9}

InitStandings ==
    /\ store \in SUBSET Season
    /\ pc = [p \in Procs |-> "done"]
    /\ response = [p \in Procs |-> NoResponse]
    /\ schedules = [p \in Procs |-> <<>>]
    /\ idx = [p \in Procs |-> 0]
    /\ result = [p \in Procs |-> "Fetched"]
    /\ resp = NoResp
    /\ faults = 0
    /\ serial = FALSE
    /\ before = {}
    /\ journal = <<>>
    /\ requests = [p \in Procs |-> 1]

Serve ==
    \/ \E fails \in BOOLEAN : GetSchedule(fails)
    \/ \E fails \in BOOLEAN : GetScoreboard(fails)

SpecStandings == InitStandings /\ [][Serve]_vars

-----------------------------------------------------------------------------
(* Vocabulary of the properties *)

\* The set a feed payload R stands for: one record per identifier, the last
\* occurrence in R.
LastOcc(R) ==
    {R[i] : i \in {k \in 1..Len(R) :
                     \A j \in (k + 1)..Len(R) : R[j].statcrew_id # R[k].statcrew_id}}

DistinctIds(R) == \A i, j \in 1..Len(R) : R[i].statcrew_id = R[j].statcrew_id => i = j

\* fetchSchedule has returned in goroutine p.
Returned(p) == pc[p] \in {"count", "mockprepare", "mock", "done"}

\* Goroutine p stands between entering the replace and leaving it.
Replacing(p) == pc[p] \in {"delete", "prepare", "insert"}

Reads == {"getSchedule", "getScoreboard"}

\* A feed response that is a fetch failure: transport error, non-200 status,
\* body read error, empty body, malformed JSON.
BadResponse(r) ==
    \/ r.transportErr
    \/ r.status # StatusOK
    \/ r.readErr
    \/ r.body = ""
    \/ r.body \notin {"[]", "null", "feedA", "feedB"}

IsMock(r) == r.statcrew_id \in MockIds

-----------------------------------------------------------------------------
(* Properties *)

\* C1 (reader atomicity): a read that runs while a refresh replaces a
\* non-empty stored set S_old by the fetched set S_new returns exactly the
\* rows of S_old or exactly the rows of S_new (for getScoreboard: their
\* played games).  Stated over the runs with one refresh at a time, in which
\* no request and no statement has failed.
C1_ReaderAtomicity ==
    \A p \in Procs :
        ( /\ serial /\ faults = 0
          /\ Replacing(p) /\ before # {}
          /\ resp.op \in Reads /\ ~resp.error ) =>
            LET seen == Range(resp.rows)
                new == LastOcc(schedules[p])
            IN  IF resp.op = "getSchedule"
                THEN seen \in {before, new}
                ELSE seen \in {Played(before), Played(new)}

\* C2 (store failure keeps the old snapshot): an invocation in which a store
\* step failed (DELETE, Prepare, a row insert) leaves the store as it was
\* when the invocation began.
C2_StoreFailureKeepsSnapshot ==
    \A i \in 1..Len(journal) :
        journal[i].result \in StoreFailures => journal[i].after = journal[i].before

\* C3 (feed failure leaves the store unchanged): an invocation whose feed
\* response is a transport error, a non-200 status, a read error, an empty
\* body or malformed JSON returns with the store as it was when it began.
C3_FeedFailureLeavesStore ==
    \A i \in 1..Len(journal) :
        (journal[i].response \in FeedResponses /\ BadResponse(journal[i].response)) =>
            /\ journal[i].after = journal[i].before
            /\ journal[i].result \in FeedFailures

\* C3 witness: a snapshot was stored, and an invocation whose payload did not
\* parse has returned.
C3_Witness ==
    \E i \in 1..Len(journal) :
        /\ journal[i].result = "DecodeError"
        /\ journal[i].before # {}
        /\ journal[i].after = journal[i].before

\* C4 (last committed wins, no merging): once two invocations that fetched A
\* and B have both completed their replace, the store is exactly A or
\* exactly B.
C4_NoMerging ==
    \A p, q \in Procs :
        ( /\ p # q
          /\ pc[p] = ExitPc(p) /\ result[p] = "Fetched"
          /\ pc[q] = ExitPc(q) /\ result[q] = "Fetched"
          /\ \A o \in Procs \ {p, q} : pc[o] = "idle" ) =>
            store \in {LastOcc(schedules[p]), LastOcc(schedules[q])}

\* C5 (fallback data never mixed with real data): the store never holds a
\* fallback record (mock1..mock4) together with a record of the feed.
C5_FallbackNeverMixed ==
    ~ \E m, r \in store : IsMock(m) /\ ~IsMock(r)

\* C6 (identifier uniqueness): the store holds at most one row per statcrew_id.
C6_UniqueIds ==
    \A r1, r2 \in store : r1.statcrew_id = r2.statcrew_id => r1 = r2

\* C6 witness: a payload that repeats an identifier has been written while
\* another writer's rows are in the store.
C6_Witness ==
    \E p \in Procs :
        /\ Returned(p) /\ schedules[p] = FeedB /\ result[p] = "Fetched"
        /\ b1 \in store /\ a2 \in store

\* C7 (wholesale replace): an invocation that decoded R, ran alone and met no
\* store error leaves exactly the records of R (last occurrence of a repeated
\* identifier); nothing of the earlier snapshot survives.
C7_WholesaleReplace ==
    \A i \in 1..Len(journal) :
        journal[i].result = "Fetched" => journal[i].after = LastOcc(journal[i].R)

\* C7 witness: such an invocation began on a snapshot holding an identifier
\* that R lacks, with R repeating an identifier.
C7_Witness ==
    \E i \in 1..Len(journal) :
        /\ journal[i].result = "Fetched"
        /\ journal[i].R = FeedB
        /\ a2 \in journal[i].before

\* C8 (replace idempotence): two replaces run one after the other with the
\* same record set R, from any store content, leave getSchedule returning the
\* same as after the first, and what it returns is R (one record per
\* identifier; R itself when no identifier repeats).
C8_ReplaceIdempotent ==
    \A i \in 1..Len(journal) :
        ( /\ i < Len(journal)
          /\ journal[i].result = "Fetched" /\ journal[i + 1].result = "Fetched"
          /\ journal[i + 1].R = journal[i].R ) =>
            /\ Ordered(journal[i + 1].after) = Ordered(journal[i].after)
            /\ \A rows \in Ordered(journal[i + 1].after) :
                  /\ Range(rows) = LastOcc(journal[i].R)
                  /\ DistinctIds(journal[i].R) => Range(rows) = Range(journal[i].R)

\* C8 witness: the same non-empty payload was replaced twice in a row, the
\* first time over a different snapshot.
C8_Witness ==
    \E i \in 1..Len(journal) :
        /\ i < Len(journal)
        /\ journal[i].result = "Fetched" /\ journal[i + 1].result = "Fetched"
        /\ journal[i + 1].R = journal[i].R
        /\ journal[i].R # <<>>
        /\ journal[i].before # journal[i].after

\* C9 (read ordering and completeness): getSchedule returns every stored row
\* exactly once, in non-decreasing order of date and, for equal dates, of time.
C9_ReadOrdered ==
    (resp.op = "getSchedule" /\ ~resp.error) =>
        /\ Len(resp.rows) = Cardinality(store)
        /\ Range(resp.rows) = store
        /\ \A i, j \in 1..Len(resp.rows) :
              i < j => \/ resp.rows[i].date < resp.rows[j].date
                       \/ /\ resp.rows[i].date = resp.rows[j].date
                          /\ resp.rows[i].time <= resp.rows[j].time

\* C9 witness: a read of rows inserted against their order (a1 before a2,
\* same date, a2 earlier in time).
C9_Witness ==
    /\ resp.op = "getSchedule"
    /\ resp.rows = <<a2, a1>>

\* C10 (reads never fail for lack of data): getSchedule and getScoreboard
\* answer 200 with what the store holds, empty or stale; the only error
\* outcome is the 500 of a failed db.Query.
C10_ReadsNeverFailForNoData ==
    resp.op \in Reads =>
        \/ /\ resp.status = StatusOK
           /\ ~resp.error
           /\ Range(resp.rows) = IF resp.op = "getSchedule" THEN store ELSE Played(store)
        \/ /\ resp.status = StatusInternalServerError
           /\ resp.error
           /\ faults > 0

\* C10 witness: a read answered 200 with no row while the store is empty and
\* the only refresh so far has failed.
C10_Witness ==
    /\ resp.op \in Reads
    /\ resp.status = StatusOK
    /\ resp.rows = <<>>
    /\ store = {}
    /\ \E p \in Procs : result[p] \in FeedFailures


-----------------------------------------------------------------------------
(* Vocabulary of the standings properties: the tallies as the store        *)
(* defines them, each game being one row                                   *)

Scoreboard == resp.op = "getScoreboard" /\ ~resp.error

\* The TeamStandings of the answer, whatever their division list.
Listed == UNION { Range(resp.standings[k].Teams) : k \in 1..Len(resp.standings) }

Unplayed(g) == g.home_score = 0 /\ g.away_score = 0

PlayedBy(S, t) == {g \in S : ~Unplayed(g) /\ (g.home_team = t \/ g.away_team = t)}

ScoreOf(g, t) == IF g.home_team = t THEN g.home_score ELSE g.away_score

Other(g, t) == IF g.home_team = t THEN g.away_team ELSE g.home_team

WonBy(S, t) == {g \in PlayedBy(S, t) : ScoreOf(g, t) > ScoreOf(g, Other(g, t))}

LostBy(S, t) == {g \in PlayedBy(S, t) : ScoreOf(g, t) < ScoreOf(g, Other(g, t))}

TeamsOf(S) == {g.home_team : g \in S} \cup {g.away_team : g \in S}

Unmapped(t) == t \notin DOMAIN teamDivisions

\* C11 (unmapped teams are ranked under UNKNOWN): whenever the store holds a
\* win or a loss of a team that teamDivisions lacks, the standings that
\* getScoreboard returns hold a division named "UNKNOWN", and in it that
\* team at a position of 1 or more.
C11_UnmappedUnderUnknown ==
    Scoreboard =>
        \A t \in TeamsOf(store) :
            (Unmapped(t) /\ WonBy(store, t) \cup LostBy(store, t) # {}) =>
                \E k \in 1..Len(resp.standings) :
                    /\ resp.standings[k].Division = "UNKNOWN"
                    /\ \E x \in Range(resp.standings[k].Teams) :
                           x.TeamName = t /\ x.Position >= 1

\* C12 (standings determinism): for a fixed store content every execution of
\* getScoreboard returns the same standings: the answer just given is the
\* only one the handler can compute from the store, whatever the order of
\* the rows of equal date and time, the iteration order of the team map and
\* the order the sort leaves equal keys in.
C12_StandingsDeterministic ==
    Scoreboard =>
        \A rows \in Ordered(Played(store)) :
            \A standings \in Standings(rows) : standings = resp.standings

\* The entry of team t in the answer.
EntryOf(t) == CHOOSE x \in Listed : x.TeamName = t

IsListed(t) == \E x \in Listed : x.TeamName = t

\* C13 (unplayed games are ignored): the standings getScoreboard returns are
\* standings of the store with every 0-0 game removed, so a 0-0 game changes
\* no tally and no SoS or SoV; and a game with one score 0 and the other not
\* is played: it counts in the wins and the losses of the teams listed.
C13_UnplayedIgnored ==
    Scoreboard =>
        /\ \E rows \in Ordered({g \in store : ~Unplayed(g)}) :
              resp.standings \in Standings(rows)
        /\ \A x \in Listed :
              /\ x.Wins = Cardinality(WonBy(store, x.TeamName))
              /\ x.Losses = Cardinality(LostBy(store, x.TeamName))
        /\ \A g \in store :
              (g.home_score = 0) # (g.away_score = 0) =>
                  \A t \in {g.home_team, g.away_team} :
                      ~Unmapped(t) => IsListed(t)

\* The answer ranks Stuttgart Surge 1-0 on the shutout s5 alone, the 0-0 game
\* s4 of the same two teams being stored next to it.
C13_Witness ==
    /\ Scoreboard
    /\ {s4, s5} \subseteq store /\ s8 \notin store
    /\ IsListed("Stuttgart Surge") /\ EntryOf("Stuttgart Surge").Record = "1-0"
    /\ EntryOf("Stuttgart Surge").SoS = <<0, 1>>

\* teamStats as the handler has it after the loop over the rows it read.
TeamStatsOf(rows) == TeamStats(Games(rows), Len(Games(rows)))

Tie(g) == g.home_score = g.away_score /\ g.home_score > 0

\* C14 (tally rule): in teamStats, and so in the standings returned, the wins
\* of every team are the played games in which its score is strictly the
\* higher one and its losses those in which it is strictly the lower one; a
\* played game of equal nonzero scores changes no team's wins or losses.
C14_TallyRule ==
    Scoreboard =>
        /\ \A t \in TeamsOf(store) :
              Stat(TeamStatsOf(resp.rows), t) =
                  [wins |-> Cardinality(WonBy(store, t)),
                   losses |-> Cardinality(LostBy(store, t))]
        /\ \A x \in Listed :
              /\ x.Wins = Cardinality(WonBy(store, x.TeamName))
              /\ x.Losses = Cardinality(LostBy(store, x.TeamName))
        /\ \A g \in store :
              Tie(g) => TeamStatsOf(SelectSeq(resp.rows, LAMBDA r : r # g))
                            = TeamStatsOf(resp.rows)

\* Munich Ravens are ranked 1-0: their shutout s8 counts, their 14-14 tie s6
\* does not.
C14_Witness ==
    /\ Scoreboard
    /\ {s6, s8} \subseteq store
    /\ IsListed("Munich Ravens") /\ EntryOf("Munich Ravens").Record = "1-0"
    /\ ~IsListed("London Warriors")

\* The sum of f over the set G.
RECURSIVE SumOver(_, _)
SumOver(G, f) ==
    IF G = {} THEN 0
    ELSE LET g == CHOOSE h \in G : TRUE IN f[g] + SumOver(G \ {g}, f)

WinsOf(S, t) == Cardinality(WonBy(S, t))

DecidedOf(S, t) == Cardinality(WonBy(S, t)) + Cardinality(LostBy(S, t))

\* The float64 value q is the quotient num / den, or 0 when den is 0.
IsRatio(q, num, den) ==
    IF den = 0 THEN q[1] = 0 ELSE q[1] * den = num * q[2]

\* C15 (strength of schedule): the SoS of every team in the standings is the
\* sum, over the played games of the team (one term per game, so an opponent
\* met k times counts k times), of the opponent's wins, divided by the sum
\* over the same games of the opponent's wins plus losses, and 0 when that
\* sum is 0.  In the round robin s1, s2, s3 the SoS of Vienna Vikings is
\* (wins of Lions + wins of Panthers) / (games of Lions + games of Panthers).
C15_StrengthOfSchedule ==
    Scoreboard =>
        /\ \A x \in Listed :
              LET G == PlayedBy(store, x.TeamName)
                  opp(g) == Other(g, x.TeamName)
              IN  IsRatio(x.SoS,
                          SumOver(G, [g \in G |-> WinsOf(store, opp(g))]),
                          SumOver(G, [g \in G |-> DecidedOf(store, opp(g))]))
        /\ store = {s1, s2, s3} =>
              LET B == EntryOf("Prague Lions")
                  C == EntryOf("Wroclaw Panthers")
              IN  IsRatio(EntryOf("Vienna Vikings").SoS,
                          B.Wins + C.Wins, B.Wins + B.Losses + C.Wins + C.Losses)

\* The round robin: Vikings beat Lions, Lions beat Panthers, Panthers beat
\* Vikings; the answer gives Vikings the SoS 2/4.
C15_Witness ==
    /\ Scoreboard
    /\ store = {s1, s2, s3}
    /\ EntryOf("Vienna Vikings").SoS = <<1, 2>>
    /\ EntryOf("Prague Lions").Record = "1-1"

\* C16 (strength of victory): the SoV of every team in the standings is the
\* same ratio taken over the played games the team won only: the sum of the
\* beaten opponents' wins divided by the sum of their wins plus losses; it
\* is 0 for a team without a win, and a game the team tied or lost adds to
\* neither sum.
C16_StrengthOfVictory ==
    Scoreboard =>
        \A x \in Listed :
            LET G == WonBy(store, x.TeamName)
                opp(g) == Other(g, x.TeamName)
            IN  /\ IsRatio(x.SoV,
                           SumOver(G, [g \in G |-> WinsOf(store, opp(g))]),
                           SumOver(G, [g \in G |-> DecidedOf(store, opp(g))]))
                /\ x.Wins = 0 => x.SoV[1] = 0

\* Vikings beat Lions (1-1) and lost to the Warriors: SoV 1/2.  Ravens beat
\* Surge (0-1) and tied the Warriors (1-0): SoV 0.  Panthers have no win.
C16_Witness ==
    /\ Scoreboard
    /\ store = {s1, s2, s6, s7, s8}
    /\ EntryOf("Vienna Vikings").SoV = <<1, 2>>
    /\ EntryOf("Munich Ravens").SoV = <<0, 1>>
    /\ EntryOf("Wroclaw Panthers").Wins = 0

\* The decimal numerals of 0..12.
Decimal == <<"0", "1", "2", "3", "4", "5", "6", "7", "8", "9", "10", "11", "12">>

\* C17 (ranking within a division): in every division list of the answer the
\* teams come by wins descending and, for equal wins, by losses ascending;
\* the i-th team of the list has position i; and every record string is the
\* wins, a hyphen, the losses.
C17_RankingWithinDivision ==
    Scoreboard =>
        \A k \in 1..Len(resp.standings) :
            LET T == resp.standings[k].Teams
            IN  /\ \A i, j \in 1..Len(T) :
                      i < j => \/ T[i].Wins > T[j].Wins
                               \/ T[i].Wins = T[j].Wins /\ T[i].Losses <= T[j].Losses
                /\ \A i \in 1..Len(T) :
                      /\ T[i].Position = i
                      /\ T[i].Record =
                             Decimal[T[i].Wins + 1] \o "-" \o Decimal[T[i].Losses + 1]

\* EAST after s1 and s2: Vikings 1-0, Lions 1-1, Panthers 0-1, in this order.
C17_Witness ==
    /\ Scoreboard
    /\ store = {s1, s2}
    /\ Len(resp.standings) = 1
    /\ LET T == resp.standings[1].Teams
       IN  /\ Len(T) = 3
           /\ T[1].TeamName = "Vienna Vikings" /\ T[1].Record = "1-0"
           /\ T[2].TeamName = "Prague Lions" /\ T[2].Position = 2
           /\ T[3].TeamName = "Wroclaw Panthers" /\ T[3].Position = 3

\* The place of a division name in the order EAST, WEST, NORTH, SOUTH.
CanonicalRank(d) ==
    IF d = "EAST" THEN 1 ELSE IF d = "WEST" THEN 2
    ELSE IF d = "NORTH" THEN 3 ELSE IF d = "SOUTH" THEN 4 ELSE 0

\* C18 (canonical division order): whatever the store holds and in whatever
\* order its rows came, the divisions of the answer are among EAST, WEST,
\* NORTH, SOUTH, come in this order, each at most once, and none of them has
\* an empty team list.
C18_CanonicalDivisionOrder ==
    Scoreboard =>
        LET D == resp.standings
        IN  /\ \A k \in 1..Len(D) : CanonicalRank(D[k].Division) >= 1
            /\ \A i, j \in 1..Len(D) :
                  i < j => CanonicalRank(D[i].Division) < CanonicalRank(D[j].Division)
            /\ \A k \in 1..Len(D) :
                  /\ D[k].Teams # <<>>
                  /\ \A x \in Range(D[k].Teams) : x.Division = D[k].Division

\* An answer holding all four divisions, the store holding the SOUTH-WEST
\* game s8 and the NORTH-WEST game s5 (of equal date and time) and the EAST
\* game s1.
C18_Witness ==
    /\ Scoreboard
    /\ {s1, s5, s8} \subseteq store
    /\ [k \in 1..Len(resp.standings) |-> resp.standings[k].Division]
           = <<"EAST", "WEST", "NORTH", "SOUTH">>

\* C19 (fire-and-forget trigger): the step in which refreshData answers is
\* the step that starts exactly one goroutine on fetchSchedule: that
\* goroutine has sent no request yet, no other goroutine has moved, the
\* store is as it was, and the answer is the 200 acknowledgement, which
\* therefore depends on nothing the refresh does afterwards.
C19_FireAndForget ==
    [][ resp'.op = "refreshData" =>
           /\ resp'.status = StatusOK /\ ~resp'.error
           /\ \E p \in Spawned :
                 /\ pc[p] = "idle" /\ pc'[p] = "fetch"
                 /\ \A q \in Procs \ {p} : pc'[q] = pc[q]
                 /\ requests'[p] = 0
           /\ store' = store ]_vars

\* The acknowledgement is out while the refresh it started has not yet sent
\* its request, the store still holding feed A of the startup task's fetch.
C19_Witness ==
    /\ resp = Ack
    /\ pc[<<"go", 1>>] = "fetch" /\ requests[<<"go", 1>>] = 0
    /\ pc[Startup] = "done"
    /\ store = Range(FeedA)

\* The goroutines that have entered fetchSchedule.
Invocations == {p \in Procs : pc[p] # "idle"}

\* C20 (single attempt): no invocation of fetchSchedule sends more than one
\* request to the feed; an invocation whose request failed has returned
\* having sent that one request; so the requests sent never outnumber the
\* invocations.
C20_SingleAttempt ==
    /\ \A p \in Procs :
          /\ requests[p] <= 1
          /\ p \notin Invocations => requests[p] = 0
          /\ result[p] \in FeedFailures => Returned(p) /\ requests[p] = 1
    /\ SumOver(Procs, requests) <= Cardinality(Invocations)

\* Two invocations, two requests: the spawned one got a failure from the feed
\* and has ended, the startup task's request went through.
C20_Witness ==
    /\ result[<<"go", 1>>] \in FeedFailures
    /\ pc[<<"go", 1>>] = "done"
    /\ requests = [p \in Procs |-> 1]
    /\ result[Startup] = "Fetched"

\* The startup task stands in insertMockData.
Seeding == pc[Startup] \in {"mockprepare", "mock"}

\* The fetchSchedule of the startup task returned having stored every record
\* of a feed that holds at least one.
FirstRefreshStored == result[Startup] = "Fetched" /\ schedules[Startup] # <<>>

\* C21 (fallback seeding condition): only the startup task ever counts the
\* rows or runs insertMockData; it enters insertMockData at most once, from
\* its count; and it enters only when its own first refresh has yielded no
\* record: a first refresh that stored at least one record is never followed
\* by seeding.
C21_FallbackSeedingCondition ==
    [][ /\ \A p \in Spawned : pc'[p] \notin {"count", "mockprepare", "mock"}
        /\ (pc'[Startup] = "mockprepare" /\ pc[Startup] # "mockprepare") =>
               pc[Startup] = "count" /\ ~FirstRefreshStored
        /\ pc[Startup] \in {"mockprepare", "mock", "done"} => pc'[Startup] # "count"
        /\ (Seeding /\ ~Seeding') => pc'[Startup] = "done" ]_vars

\* Goroutine p has run its DELETE and has not left its insert loop.
PastDelete(p) == pc[p] \in {"prepare", "insert"}

\* Two invocations stand between their DELETE and the end of their inserts.
TwoReplacing == \E p, q \in Procs : p # q /\ PastDelete(p) /\ PastDelete(q)

\* C22 (no mutual exclusion between triggers): a trigger starts its refresh
\* whatever the other goroutines are doing: every trigger whose goroutine is
\* still to be started can fire in every state, also while another
\* invocation is past its DELETE.  The witness is a state in which two
\* invocations are both between their DELETE and the end of their insert
\* loop.
C22_NoMutualExclusion ==
    /\ pc[Startup] = "idle" => ENABLED StartupTask
    /\ \A i \in 1..MaxTriggers :
          (pc[<<"go", i>>] = "idle" /\ (i > 1 => pc[<<"go", i - 1>>] # "idle")) =>
              ENABLED CronTick(i) /\ ENABLED RefreshData(i)

\* The startup task and the goroutine of a cron tick or of refreshData have
\* both deleted and are both inserting.
C22_Witness ==
    /\ TwoReplacing
    /\ pc[Startup] = "insert" /\ pc[<<"go", 1>>] = "insert"
    /\ idx[Startup] = 2 /\ idx[<<"go", 1>>] = 2

\* C23 (reads have no side effect): a step in which getSchedule or
\* getScoreboard answers changes neither the store nor the state of any
\* goroutine; and what it answers is read off the store as it is at that
\* step: the rows are the stored rows (for getScoreboard the played ones),
\* and the tallies of the standings are those of the stored games, whatever
\* was stored or answered before.
C23_ReadsNoSideEffect ==
    [][ resp'.op \in Reads =>
           /\ UNCHANGED <<store, pc, response, schedules, idx, result, requests>>
           /\ ~resp'.error =>
                 /\ Range(resp'.rows) =
                        IF resp'.op = "getSchedule" THEN store
                        ELSE {g \in store : ~Unplayed(g)}
                 /\ \A k \in 1..Len(resp'.standings) :
                       \A x \in Range(resp'.standings[k].Teams) :
                           /\ x.Wins = WinsOf(store, x.TeamName)
                           /\ x.Losses = Cardinality(LostBy(store, x.TeamName))
                           /\ x.Division = Division(x.TeamName) ]_vars

\* getScoreboard has answered with standings of the store a refresh has just
\* changed: the store differs from the one that refresh found.
C23_Witness ==
    /\ Scoreboard
    /\ resp.standings # <<>>
    /\ before # store
    /\ \E p \in Procs : pc[p] = "insert"

\* A 200 response whose non-empty body decodes without error to no record.
EmptyFeed(r) ==
    ~r.transportErr /\ r.status = StatusOK /\ ~r.readErr /\ r.body \in {"[]", "null"}

\* C24 (an empty feed clears the store): an invocation that received a 200
\* response whose body is [] or null is no fetch failure: unless its DELETE
\* fails it ends as a completed refresh that has deleted every stored record
\* and inserted none, so the store it leaves is empty whatever it found.
C24_EmptyFeedClearsStore ==
    \A i \in 1..Len(journal) :
        EmptyFeed(journal[i].response) =>
            /\ journal[i].result \in {"Fetched", "DeleteError"}
            /\ journal[i].result = "Fetched" => journal[i].after = {}

\* An invocation found feed A stored, received [] or null and left the store
\* empty.
C24_Witness ==
    \E i \in 1..Len(journal) :
        /\ EmptyFeed(journal[i].response)
        /\ journal[i].before = Range(FeedA)
        /\ journal[i].result = "Fetched"
        /\ journal[i].after = {}
        /\ store = {}

\* The first n records of R without those at the positions F.
RECURSIVE Keep(_, _, _)
Keep(R, F, n) ==
    IF n = 0 THEN <<>>
    ELSE IF n \in F THEN Keep(R, F, n - 1) ELSE Append(Keep(R, F, n - 1), R[n])

\* C25 (row insert failures are skipped, not aborted): an invocation in
\* whose insert loop rows failed has gone through the whole loop and
\* returned: the store it leaves is what inserting the fetched records
\* without the failed ones gives, after the old set was deleted.  There are
\* as many failed rows as failures, at least one, and none of what the
\* invocation found is kept unless the feed holds it.
C25_InsertFailuresSkipped ==
    \A i \in 1..Len(journal) :
        journal[i].result = "InsertError" =>
            LET R == journal[i].R
            IN  /\ \E F \in SUBSET (1..Len(R)) :
                      /\ F # {} /\ Cardinality(F) <= faults
                      /\ journal[i].after = LastOcc(Keep(R, F, Len(R)))
                /\ journal[i].after \subseteq Range(R)
                /\ journal[i].after # Range(R)

\* The insert of the first record of feed A failed, the second went in: the
\* invocation returned with the store holding g2 alone.
C25_Witness ==
    \E i \in 1..Len(journal) :
        /\ journal[i].result = "InsertError"
        /\ journal[i].R = FeedA
        /\ journal[i].after = {a2}
        /\ store = {a2}

\* Team t took part in a played game of unequal scores.
Decisive(S, t) == WonBy(S, t) \cup LostBy(S, t) # {}

\* C26 (teams with no decisive game are absent): a team of the stored games
\* is in the standings getScoreboard returns if and only if it took part in
\* a played game of unequal scores; a team all of whose played games are
\* ties has no standing, and teamStats gives it 0 wins and 0 losses when it
\* is looked up as an opponent.
C26_OnlyDecisiveTeamsListed ==
    Scoreboard =>
        \A t \in TeamsOf(store) :
            /\ IsListed(t) <=> Decisive(store, t)
            /\ ~Decisive(store, t) =>
                   Stat(TeamStatsOf(resp.rows), t) = [wins |-> 0, losses |-> 0]

\* C27 (tally conservation): in the teamStats getScoreboard computes, the
\* wins of all teams together are as many as the losses of all teams
\* together, and as many as the stored games of unequal scores; every SoS
\* and every SoV of the answer is at least 0 and at most 1.
C27_TallyConservation ==
    Scoreboard =>
        LET teamStats == TeamStatsOf(resp.rows)
            teams == DOMAIN teamStats
            decided == {g \in store : g.home_score # g.away_score}
        IN  /\ SumOver(teams, [t \in teams |-> teamStats[t].wins]) = Cardinality(decided)
            /\ SumOver(teams, [t \in teams |-> teamStats[t].losses]) = Cardinality(decided)
            /\ \A x \in Listed :
                  /\ 0 <= x.SoS[1] /\ x.SoS[1] <= x.SoS[2]
                  /\ 0 <= x.SoV[1] /\ x.SoV[1] <= x.SoV[2]

\* The whole season is stored: seven games of unequal scores, a tie and an
\* unplayed game; Prague Lions are listed with an SoS strictly between 0 and 1.
C27_Witness ==
    /\ Scoreboard
    /\ store = Season
    /\ EntryOf("Prague Lions").Record = "2-1"
    /\ EntryOf("Prague Lions").SoS[1] > 0
    /\ EntryOf("Prague Lions").SoS[1] < EntryOf("Prague Lions").SoS[2]

\* The store holds the fallback dataset and nothing else.
FallbackOnly == {r.statcrew_id : r \in store} = {"mock1", "mock2", "mock3", "mock4"}

\* C28 (fallback data yields no standings): while the store holds exactly
\* the four records written by insertMockData, getSchedule answers with
\* those four records, every one of them 0-0, and getScoreboard answers with
\* an empty standings list.
C28_FallbackNoStandings ==
    (FallbackOnly /\ resp.op \in Reads /\ ~resp.error) =>
        IF resp.op = "getSchedule"
        THEN /\ Len(resp.rows) = 4
             /\ Range(resp.rows) = store
             /\ \A r \in store : Unplayed(r)
        ELSE resp.standings = <<>>

\* The startup task has seeded the store and getScoreboard has answered with
\* no division.
C28_Witness ==
    /\ FallbackOnly
    /\ pc[Startup] = "done"
    /\ Scoreboard
    /\ resp.status = StatusOK /\ resp.standings = <<>>

\* Every goroutine that was started has ended, and at least one was started.
Quiescent ==
    /\ \A p \in Procs : pc[p] \in {"idle", "done"}
    /\ \E p \in Procs : pc[p] = "done"

\* Every invocation of the run decoded the payload R and completed its
\* replace.
AllFetched(R) ==
    \A p \in Procs : pc[p] = "done" => schedules[p] = R /\ result[p] = "Fetched"

\* C29 (quiescent convergence): in a run in which no request and no store
\* step fails and every request returns the same valid record set R, once
\* every refresh that was started, overlapping the others in any way, has
\* ended, the store holds exactly R: no fallback record and nothing else.
\* Stated for the feeds that hold a record, for which the claim leaves no
\* room for the fallback dataset.
C29_QuiescentConvergence ==
    (Quiescent /\ faults = 0) =>
        \A R \in {FeedA, FeedB} : AllFetched(R) => store = LastOcc(R)

=============================================================================
